---- MODULE Spec2Model ----
(***************************************************************************)
(* Split.js: the pairwise layout-and-drag engine of src/src/split.js, with *)
(* the page it runs on (the parent's children, inline styles, listeners on *)
(* the dividers and on window, the box each pane is laid out in), and the  *)
(* constructor of the UISplitter rewrite (src/src/ui-splitter.ts).         *)
(*                                                                         *)
(* Arrays are functions over 0..n-1, as in the source.  A JavaScript       *)
(* Number is an exact fraction <<n, d>> in lowest terms with d > 0; NaN,   *)
(* which is also what `undefined` becomes in arithmetic, is <<0, 0>>.      *)
(***************************************************************************)
EXTENDS Integers, Sequences, FiniteSets, TLC

VARIABLES
    ids,             \* the first argument: ids[i] is TRUE iff selector i matches an element
    options,         \* the second argument; an option is {} (undefined) or {value}
    isIE8,           \* window.attachEvent && !window.addEventListener
    parentFlexDirection, \* getComputedStyle(parent).flexDirection
    parentSize,      \* the parent's content box along the split axis, in px
    phase,           \* "page": Split not called yet; "built"; "failed": Split threw
    elements,        \* the closure's elements array
    pairs,           \* the closure's pairs array
    children,        \* parent.childNodes, in document order
    style,           \* style[i]: the inline style of the element ids[i] names, and
                     \* (field on) the events it has the NOOP listener for
    gutters,         \* the divider elements created so far, by the index i they precede
    cursors,         \* style.cursor of the parent and of document.body
    listeners,       \* window's event listeners, in registration order
    fired,           \* what the last operation invoked or raised, in order
    lastOp,          \* the last operation performed on the page or the handle
    steps,           \* how many operations, releases apart, have been performed
    calls,           \* how many of them were calls of setSizes, collapse or destroy
    ui               \* the UISplitter instance, once new UISplitter(ids) has run

vars == <<ids, options, isIE8, parentFlexDirection, parentSize, phase, elements,
          pairs, children, style, gutters, cursors, listeners, fired,
          lastOp, steps, calls, ui>>

-----------------------------------------------------------------------------
(* Numbers *)

Abs(i) == IF i < 0 THEN -i ELSE i

RECURSIVE GCD(_, _)
GCD(a, b) == IF b = 0 THEN a ELSE GCD(b, a % b)

NaN == <<0, 0>>

\* The model's numbers keep numerator and denominator within MaxNumber; a result
\* outside is TooBig, every operation on TooBig is TooBig, and no operation that
\* would store TooBig, or lay a box of length TooBig out, is taken (Commit).
MaxNumber == 30000

TooBig == <<1, 0>>

isNaN(x) == x = NaN

Bounded(r) == IF Abs(r[1]) > MaxNumber \/ r[2] > MaxNumber THEN TooBig ELSE r

Lowest(n, d, g) == Bounded(<<n \div g, d \div g>>)

Frac(n, d) ==
    IF d = 0 THEN NaN
    ELSE IF d < 0 THEN Lowest(-n, -d, GCD(Abs(n), Abs(d)))
    ELSE Lowest(n, d, GCD(Abs(n), Abs(d)))

Num(i) == <<i, 1>>

\* What an operation on x and y is when one of them is no fraction.
NoFraction(x, y) == IF x = TooBig \/ y = TooBig THEN TooBig ELSE NaN

Add(x, y) == IF x[2] = 0 \/ y[2] = 0 THEN NoFraction(x, y)
             ELSE Frac(x[1] * y[2] + y[1] * x[2], x[2] * y[2])

Sub(x, y) == IF x[2] = 0 \/ y[2] = 0 THEN NoFraction(x, y)
             ELSE Frac(x[1] * y[2] - y[1] * x[2], x[2] * y[2])

Mul(x, y) == IF x[2] = 0 \/ y[2] = 0 THEN NoFraction(x, y)
             ELSE Frac(x[1] * y[1], x[2] * y[2])

\* x / 0 is +-Infinity or NaN in JavaScript; every later use of it here ends in NaN
\* or in a size no layout can honour, and a positive gutterSize keeps every divisor
\* of the source (this.size) positive.
Div(x, y) == IF x[2] = 0 \/ y[2] = 0 THEN NoFraction(x, y)
             ELSE IF y[1] = 0 THEN NaN
             ELSE Frac(x[1] * y[2], x[2] * y[1])

\* Comparisons with NaN are false.
Leq(x, y) == x[2] # 0 /\ y[2] # 0 /\ x[1] * y[2] <= y[1] * x[2]
Lt(x, y)  == x[2] # 0 /\ y[2] # 0 /\ x[1] * y[2] < y[1] * x[2]
Geq(x, y) == Leq(y, x)

Max0(x) == IF Lt(x, Num(0)) THEN Num(0) ELSE x

length(a) == Cardinality(DOMAIN a)

push(a, v) == [i \in 0..length(a) |-> IF i < length(a) THEN a[i] ELSE v]

-----------------------------------------------------------------------------
(* The options and the strings derived from them *)

getOption(opts, propName, def) ==
    IF opts[propName] # {} THEN CHOOSE v \in opts[propName] : TRUE ELSE def

HORIZONTAL == "horizontal"

gutterSize    == getOption(options, "gutterSize", Num(10))
snapOffset    == getOption(options, "snapOffset", Num(30))
pushablePanes == getOption(options, "pushablePanes", FALSE)
direction     == getOption(options, "direction", HORIZONTAL)
cursor        == getOption(options, "cursor",
                           IF direction = HORIZONTAL THEN "ew-resize" ELSE "ns-resize")

\* A variant of sizes that ignores options.sizes.
sizesIgnoringOption == [i \in DOMAIN ids |-> Frac(100, length(ids))]

\* options.sizes || ids.map(() => 100 / ids.length)
sizes ==
    IF options.sizes # {} THEN CHOOSE v \in options.sizes : TRUE
    ELSE [i \in DOMAIN ids |-> Frac(100, length(ids))]

\* minSize is a number (broadcast) or an array.
minSizes ==
    LET min == getOption(options, "minSize", [array |-> FALSE, v |-> Num(100)])
    IN  IF min.array THEN min.v ELSE [i \in DOMAIN ids |-> min.v]

dimension  == IF direction = HORIZONTAL THEN "width"   ELSE "height"
clientAxis == IF direction = HORIZONTAL THEN "clientX" ELSE "clientY"
position   == IF direction = HORIZONTAL THEN "left"    ELSE "top"

-----------------------------------------------------------------------------
(* Inline style values, and the style functions *)

\* A CSS value: "" (not set), "page" (what the page itself wrote), "none", a
\* cursor keyword, "px" (px pixels), "percent" (pct %) or "calc" (calc(pct% - px px)).
Css(kind, pct, px) == [css |-> kind, pct |-> pct, px |-> px]
Keyword(k)         == Css(k, Num(0), Num(0))
Empty              == Keyword("")

defaultElementStyleFn(dim, size, gutSize) ==
    [prop  |-> dim,
     value |-> IF ~isIE8 THEN Css("calc", size, gutSize)
               ELSE Css("percent", size, Num(0))]

defaultGutterStyleFn(dim, gutSize) ==
    [prop |-> dim, value |-> Css("px", Num(0), gutSize)]

elementStyle(dim, size, gutSize) == defaultElementStyleFn(dim, size, gutSize)
gutterStyle(dim, gutSize)        == defaultGutterStyleFn(dim, gutSize)

-----------------------------------------------------------------------------
(* The page: how the parent lays its children out along the split axis.   *)
(* Every child takes the length its inline style asks for (a negative     *)
(* calc() is used as 0, an unset length fills the parent), dividers       *)
(* included, and the children follow each other from the parent's leading *)
(* edge at 0, or from its trailing edge when the flex direction is        *)
(* reversed.  `dom` is a record with the fields children, style, gutters. *)

Pane(i)   == [kind |-> "pane", i |-> i]
Gutter(i) == [kind |-> "gutter", i |-> i]

used(v) ==
    CASE v.css = "calc"    -> Max0(Sub(Mul(v.pct, Frac(parentSize, 100)), v.px))
      [] v.css = "percent" -> Mul(v.pct, Frac(parentSize, 100))
      [] v.css = "px"      -> v.px
      [] OTHER             -> Num(parentSize)

boxSize(dom, node) ==
    IF node.kind = "pane" THEN used(dom.style[node.i][dimension])
    ELSE used(dom.gutters[node.i].style[dimension])

RECURSIVE extent(_, _)
\* The length of the first j children together.
extent(dom, j) ==
    IF j = 0 THEN Num(0)
    ELSE Add(extent(dom, j - 1), boxSize(dom, dom.children[j]))

reversed ==
    \/ direction = HORIZONTAL /\ parentFlexDirection = "row-reverse"
    \/ direction # HORIZONTAL /\ parentFlexDirection = "column-reverse"

indexOf(dom, node) == CHOOSE j \in 1..Len(dom.children) : dom.children[j] = node

\* The rectangle of a box of length len that begins at start on the split axis.
DOMRect(len, start, cross) ==
    IF direction = HORIZONTAL
    THEN [width |-> len, left |-> start, right |-> Add(start, len),
          height |-> cross, top |-> Num(0), bottom |-> cross]
    ELSE [height |-> len, top |-> start, bottom |-> Add(start, len),
          width |-> cross, left |-> Num(0), right |-> cross]

\* Where the j-th child begins.
startOf(dom, j) ==
    IF reversed THEN Sub(Num(parentSize), extent(dom, j)) ELSE extent(dom, j - 1)

\* element.getBoundingClientRect() of the pane ids[i] names.
getBoundingClientRect(dom, i) ==
    DOMRect(boxSize(dom, Pane(i)), startOf(dom, indexOf(dom, Pane(i))),
            Num(parentSize + 1))

-----------------------------------------------------------------------------
(* Split(ids, options): construction.  `st` is the state the ids.map       *)
(* callback works on: the arrays under construction, the page, and what    *)
(* was thrown.                                                             *)

null == -1

TheDom(st) == [children |-> st.children, style |-> st.style, gutters |-> st.gutters]

\* el.style[prop] = value: a value that is no CSS length, as one made of NaN is,
\* is dropped and the property keeps what it had.
assign(sty, s) == IF isNaN(s.value.pct) THEN sty ELSE [sty EXCEPT ![s.prop] = s.value]

\* Object.keys(style).forEach(prop => { el.style[prop] = style[prop] })
setElementSize(st, el, size, gutSize) ==
    IF el = null THEN [st EXCEPT !.thrown = "TypeError"]
    ELSE [st EXCEPT !.style[el] = assign(@, elementStyle(dimension, size, gutSize))]

setGutterSize(gutterElement, gutSize) ==
    LET s == gutterStyle(dimension, gutSize)
    IN  [gutterElement EXCEPT !.style[s.prop] = s.value]

\* document.createElement('div') with its class name
defaultGutterFn(i, gutterDirection) ==
    [className |-> <<"gutter", gutterDirection>>,
     style     |-> [width |-> Empty, height |-> Empty, cursor |-> ""],
     listeners |-> <<>>]

gutter(i, gutterDirection) == defaultGutterFn(i, gutterDirection)

\* parent.insertBefore(node, ref); a null ref appends.
insertBefore(kids, node, ref) ==
    IF ref = null THEN Append(kids, node)
    ELSE LET j == CHOOSE m \in 1..Len(kids) : kids[m] = Pane(ref)
         IN  SubSeq(kids, 1, j - 1) \o <<node>> \o SubSeq(kids, j, Len(kids))

\* A variant of newPair that never switches the pair's elements.
newPairUnswapped(i) ==
    [a           |-> i - 1,
     b           |-> i,
     dragging    |-> FALSE,
     isFirst     |-> (i = 1),
     isLast      |-> (i = length(ids) - 1),
     direction   |-> direction,
     parent      |-> "parent",
     aGutterSize |-> IF i = 1 THEN Div(gutterSize, Num(2)) ELSE gutterSize,
     bGutterSize |-> IF i = length(ids) - 1 THEN Div(gutterSize, Num(2)) ELSE gutterSize,
     gutter      |-> null,
     size        |-> NaN,
     start       |-> NaN,
     move        |-> null,
     stop        |-> null]

\* The pair object of iteration i > 0, before its gutter is attached.
newPair(i) ==
    LET isFirst == (i = 1)
        isLast  == (i = length(ids) - 1)
        swap    == parentFlexDirection \in {"row-reverse", "column-reverse"}
    IN  [a           |-> IF swap THEN i ELSE i - 1,
         b           |-> IF swap THEN i - 1 ELSE i,
         dragging    |-> FALSE,
         isFirst     |-> isFirst,
         isLast      |-> isLast,
         direction   |-> direction,
         parent      |-> "parent",
         aGutterSize |-> IF isFirst THEN Div(gutterSize, Num(2)) ELSE gutterSize,
         bGutterSize |-> IF isLast THEN Div(gutterSize, Num(2)) ELSE gutterSize,
         gutter      |-> null,
         size        |-> NaN,
         start       |-> NaN,
         move        |-> null,
         stop        |-> null]

\* The gutter of iteration i: created, sized, given its press listeners and
\* inserted before el.
withGutter(st, i, el, pairIndex) ==
    [st EXCEPT !.gutters  = (i :> [setGutterSize(gutter(i, direction), gutterSize)
                                      EXCEPT !.listeners =
                                          <<[type |-> "mousedown", pairIndex |-> pairIndex],
                                            [type |-> "touchstart", pairIndex |-> pairIndex]>>])
                            @@ @,
               !.children = insertBefore(@, Gutter(i), el)]

\* A variant of newElement that keeps the configured minSize.
newElementUnclamped(el, size, minSize, computedSize) ==
    [element |-> el, size |-> size, minSize |-> minSize]

\* The element object: a measured size below minSize replaces it.
newElement(el, size, minSize, computedSize) ==
    [element |-> el,
     size    |-> size,
     minSize |-> IF Lt(computedSize, minSize) THEN computedSize ELSE minSize]

\* A variant of pushElement that adds a pair for the first element too.
pushElementAlwaysPair(sized, i, el) ==
    IF sized.thrown # "" THEN sized
    ELSE [sized EXCEPT
             !.elements = push(@, newElement(el, sizes[i], minSizes[i],
                                   getBoundingClientRect(TheDom(sized), i)[dimension])),
             !.pairs    = push(@, [newPair(i) EXCEPT
                                      !.gutter = IF ~isIE8 /\ i > 0 THEN i ELSE null])]

\* The end of the callback: measure, and add the element and the pair.
pushElement(sized, i, el) ==
    IF sized.thrown # "" THEN sized
    ELSE [sized EXCEPT
             !.elements = push(@, newElement(el, sizes[i], minSizes[i],
                                   getBoundingClientRect(TheDom(sized), i)[dimension])),
             !.pairs    = IF i > 0
                          THEN push(@, [newPair(i) EXCEPT
                                           !.gutter = IF ~isIE8 THEN i ELSE null])
                          ELSE @]

\* One call of the ids.map callback.
mapIds(st, i) ==
    LET el == IF ids[i] THEN i ELSE null
    IN  pushElement(
            setElementSize(
                IF ~isIE8 /\ i > 0 THEN withGutter(st, i, el, length(st.pairs)) ELSE st,
                el, sizes[i],
                IF i = 0 \/ i = length(ids) - 1 THEN Div(gutterSize, Num(2))
                ELSE gutterSize),
            i, el)

RECURSIVE mapFrom(_, _)
\* ids.map(callback) from index i on; an exception ends it.
mapFrom(st, i) ==
    IF i = length(ids) \/ st.thrown # "" THEN st
    ELSE mapFrom(mapIds(st, i), i + 1)

-----------------------------------------------------------------------------
(* The pair helpers.  `st` holds the closure's arrays, the page and the    *)
(* callbacks invoked so far by the running operation.                      *)

Called(st, name, pairIndex) ==
    [st EXCEPT !.fired = Append(@, [cb |-> name, pairIndex |-> pairIndex])]

\* The two sizes stored and applied.
resize(st, pair, aSize, bSize) ==
    setElementSize(
        setElementSize([st EXCEPT !.elements[pair.a].size = aSize,
                                  !.elements[pair.b].size = bSize],
                       st.elements[pair.a].element, aSize, pair.aGutterSize),
        st.elements[pair.b].element, bSize, pair.bGutterSize)

\* a.size = (offset / this.size) * percentage; b.size = percentage - that
share(offset, size, percentage) == Mul(Div(offset, size), percentage)

\* adjust.call(pair, offset)
adjust(st, pair, offset) ==
    LET percentage == Add(st.elements[pair.a].size, st.elements[pair.b].size)
    IN  resize(st, pair, share(offset, pair.size, percentage),
               Sub(percentage, share(offset, pair.size, percentage)))

\* calculateSizes.call(pair): the pair with its size and start measured anew.
measured(pair, aBounds, bBounds) ==
    [pair EXCEPT
        !.size  = Add(Add(Add(aBounds[dimension], bBounds[dimension]),
                          pair.aGutterSize), pair.bGutterSize),
        !.start = aBounds[position]]

calculateSizes(st, pair) ==
    measured(pair,
             getBoundingClientRect(TheDom(st), st.elements[pair.a].element),
             getBoundingClientRect(TheDom(st), st.elements[pair.b].element))

hasTouches(e) == e.touches # <<>>

\* The snap clamps of drag.
snap(pair, a, b, pairOffset) ==
    IF TooBig \in {pairOffset, pair.size} THEN TooBig
    ELSE IF Leq(pairOffset, Add(Add(a.minSize, snapOffset), pair.aGutterSize))
    THEN Add(a.minSize, pair.aGutterSize)
    ELSE IF Geq(pairOffset,
                Sub(pair.size, Add(Add(b.minSize, snapOffset), pair.bGutterSize)))
    THEN Sub(pair.size, Add(b.minSize, pair.bGutterSize))
    ELSE pairOffset

\* The borrowed neighbours: pane a and its gutter allowance from the pair before,
\* pane b and its gutter allowance from the pair after.
borrow(st, pairIndex, pair, before, after) ==
    [pair EXCEPT
        !.a           = IF before THEN st.pairs[pairIndex - 1].a ELSE @,
        !.aGutterSize = IF before THEN st.pairs[pairIndex - 1].aGutterSize ELSE @,
        !.b           = IF after THEN st.pairs[pairIndex + 1].b ELSE @,
        !.bGutterSize = IF after THEN st.pairs[pairIndex + 1].bGutterSize ELSE @]

\* A variant of extended that keeps the span and start of the base pair.
extendedWithoutMeasure(st, pairIndex, pair, before, after, eventOffset) ==
    [pair   |-> borrow(st, pairIndex, pair, before, after),
     offset |-> IF before
                THEN Add(eventOffset, Sub(pair.start, st.pairs[pairIndex - 1].start))
                ELSE eventOffset]

extended(st, pairIndex, pair, before, after, eventOffset) ==
    [pair   |-> IF before \/ after
                THEN calculateSizes(st, borrow(st, pairIndex, pair, before, after))
                ELSE pair,
     offset |-> IF before
                THEN Add(eventOffset, Sub(pair.start, st.pairs[pairIndex - 1].start))
                ELSE eventOffset]

\* The pair drag works on: a copy of pairs[pairIndex], extended over the
\* neighbour the pointer pushes into, and the offset in it.
pushed(st, pairIndex, eventOffset) ==
    extended(st, pairIndex, st.pairs[pairIndex],
             ~st.pairs[pairIndex].isFirst /\ Lt(eventOffset, Num(0)),
             ~st.pairs[pairIndex].isLast /\ Lt(st.pairs[pairIndex].size, eventOffset),
             eventOffset)

eventOffset(pair, e) ==
    IF hasTouches(e) THEN Sub(e.touches[1][clientAxis], pair.start)
    ELSE Sub(e[clientAxis], pair.start)

\* A variant of dragged that works on pairs[pairIndex] itself, not on a copy.
draggedInPlace(st, pairIndex, ext) ==
    Called(adjust([st EXCEPT !.pairs[pairIndex] = ext.pair], ext.pair,
                  snap(ext.pair, st.elements[st.pairs[pairIndex].a],
                       st.elements[st.pairs[pairIndex].b], ext.offset)),
           "onDrag", pairIndex)

\* The end of drag: snap, adjust, onDrag.  a and b are those of pairs[pairIndex].
dragged(st, pairIndex, ext) ==
    Called(adjust(st, ext.pair,
                  snap(ext.pair, st.elements[st.pairs[pairIndex].a],
                       st.elements[st.pairs[pairIndex].b], ext.offset)),
           "onDrag", pairIndex)

\* A variant of drag that measures pairs[pairIndex] again when it is done.
dragRemeasuring(st, pairIndex, e) ==
    IF ~st.pairs[pairIndex].dragging THEN st
    ELSE LET done == dragged(st, pairIndex,
                         IF pushablePanes /\ length(st.pairs) > 1
                         THEN pushed(st, pairIndex, eventOffset(st.pairs[pairIndex], e))
                         ELSE [pair   |-> st.pairs[pairIndex],
                               offset |-> eventOffset(st.pairs[pairIndex], e)])
         IN  [done EXCEPT !.pairs[pairIndex] = calculateSizes(done, @)]

\* A variant of drag that pushes through whatever the pushablePanes option says.
dragAlwaysPushing(st, pairIndex, e) ==
    IF ~st.pairs[pairIndex].dragging THEN st
    ELSE dragged(st, pairIndex,
                 IF length(st.pairs) > 1
                 THEN pushed(st, pairIndex, eventOffset(st.pairs[pairIndex], e))
                 ELSE [pair   |-> st.pairs[pairIndex],
                       offset |-> eventOffset(st.pairs[pairIndex], e)])

\* A variant of drag without the test of the dragging flag.
dragWithoutGuard(st, pairIndex, e) ==
    dragged(st, pairIndex,
            IF pushablePanes /\ length(st.pairs) > 1
            THEN pushed(st, pairIndex, eventOffset(st.pairs[pairIndex], e))
            ELSE [pair   |-> st.pairs[pairIndex],
                  offset |-> eventOffset(st.pairs[pairIndex], e)])

\* drag.bind({ pairIndex })(e)
drag(st, pairIndex, e) ==
    IF ~st.pairs[pairIndex].dragging THEN st
    ELSE dragged(st, pairIndex,
                 IF pushablePanes /\ length(st.pairs) > 1
                 THEN pushed(st, pairIndex, eventOffset(st.pairs[pairIndex], e))
                 ELSE [pair   |-> st.pairs[pairIndex],
                       offset |-> eventOffset(st.pairs[pairIndex], e)])

removeEventListener(ls, type, fn, handler) ==
    SelectSeq(ls, LAMBDA l : ~(l.type = type /\ l.id = fn /\ l.handler = handler))

addEventListener(ls, type, fn, handler, pairIndex) ==
    Append(ls, [type |-> type, id |-> fn, handler |-> handler, pairIndex |-> pairIndex])

\* The event types stopDragging is registered for.
StopTypes == {"mouseup", "touchend", "touchcancel"}

\* The listeners of pair removed and the drag styling undone.
stopped(st, pairIndex, pair) ==
    [st EXCEPT
        !.pairs[pairIndex].dragging = FALSE,
        !.pairs[pairIndex].stop     = null,
        !.pairs[pairIndex].move     = null,
        !.listeners                 =
            removeEventListener(
                removeEventListener(
                    removeEventListener(
                        removeEventListener(
                            removeEventListener(@, "mouseup", pair.stop, "stopDragging"),
                            "touchend", pair.stop, "stopDragging"),
                        "touchcancel", pair.stop, "stopDragging"),
                    "mousemove", pair.move, "drag"),
                "touchmove", pair.move, "drag"),
        !.style                     =
            [i \in DOMAIN @ |->
                IF i \in {st.elements[pair.a].element, st.elements[pair.b].element}
                THEN [@[i] EXCEPT !.on = {}, !.userSelect = Empty,
                                  !.pointerEvents = Empty]
                ELSE @[i]],
        !.gutters[pair.gutter].style.cursor = "",
        !.cursors                   = [parent |-> "", body |-> ""]]

\* A variant of stopDragging that leaves the drag styling of the panes in place.
stopDraggingKeepingStyles(st, pairIndex) ==
    [stopped(IF st.pairs[pairIndex].dragging THEN Called(st, "onDragEnd", pairIndex)
             ELSE st,
             pairIndex, st.pairs[pairIndex])
        EXCEPT !.style = st.style]

\* stopDragging.bind({ pairIndex })()
stopDragging(st, pairIndex) ==
    stopped(IF st.pairs[pairIndex].dragging THEN Called(st, "onDragEnd", pairIndex)
            ELSE st,
            pairIndex, st.pairs[pairIndex])

\* A function identity no listener and no pair holds.
freshFunction(st) ==
    CHOOSE n \in 1..(Len(st.listeners) + 1) :
        /\ \A j \in 1..Len(st.listeners) : st.listeners[j].id # n
        /\ \A k \in DOMAIN st.pairs : st.pairs[k].move # n /\ st.pairs[k].stop # n

\* A variant of started that registers no stop listener for touchcancel.
startedWithoutTouchCancel(st, pairIndex, pair, fn) ==
    [st EXCEPT
        !.pairs[pairIndex].dragging = TRUE,
        !.pairs[pairIndex].move     = fn,
        !.pairs[pairIndex].stop     = fn,
        !.listeners                 =
            addEventListener(
                addEventListener(
                    addEventListener(
                        addEventListener(@, "mouseup", fn, "stopDragging", pairIndex),
                        "touchend", fn, "stopDragging", pairIndex),
                    "mousemove", fn, "drag", pairIndex),
                "touchmove", fn, "drag", pairIndex),
        !.style                     =
            [i \in DOMAIN @ |->
                IF i \in {st.elements[pair.a].element, st.elements[pair.b].element}
                THEN [@[i] EXCEPT !.on = {"selectstart", "dragstart"},
                                  !.userSelect = Keyword("none"),
                                  !.pointerEvents = Keyword("none")]
                ELSE @[i]],
        !.gutters[pair.gutter].style.cursor = cursor,
        !.cursors                   = [parent |-> cursor, body |-> cursor]]

\* The pair marked dragging, its new listeners on window, the drag styling.
started(st, pairIndex, pair, fn) ==
    [st EXCEPT
        !.pairs[pairIndex].dragging = TRUE,
        !.pairs[pairIndex].move     = fn,
        !.pairs[pairIndex].stop     = fn,
        !.listeners                 =
            addEventListener(
                addEventListener(
                    addEventListener(
                        addEventListener(
                            addEventListener(@, "mouseup", fn, "stopDragging", pairIndex),
                            "touchend", fn, "stopDragging", pairIndex),
                        "touchcancel", fn, "stopDragging", pairIndex),
                    "mousemove", fn, "drag", pairIndex),
                "touchmove", fn, "drag", pairIndex),
        !.style                     =
            [i \in DOMAIN @ |->
                IF i \in {st.elements[pair.a].element, st.elements[pair.b].element}
                THEN [@[i] EXCEPT !.on = {"selectstart", "dragstart"},
                                  !.userSelect = Keyword("none"),
                                  !.pointerEvents = Keyword("none")]
                ELSE @[i]],
        !.gutters[pair.gutter].style.cursor = cursor,
        !.cursors                   = [parent |-> cursor, body |-> cursor]]

\* calculateSizes.call(pairs[k])
recalculated(st, k) == [st EXCEPT !.pairs[k] = calculateSizes(st, st.pairs[k])]

\* A variant of startDragging that invokes onDragStart on every press.
startDraggingAlwaysStarts(st, pairIndex, e) ==
    recalculated(
        started(Called(Called(st, "onDragStart", pairIndex), "preventDefault", pairIndex),
                pairIndex, st.pairs[pairIndex], freshFunction(st)),
        pairIndex)

\* startDragging.bind({ pairIndex })(e)
startDragging(st, pairIndex, e) ==
    recalculated(
        started(Called(IF ~st.pairs[pairIndex].dragging
                       THEN Called(st, "onDragStart", pairIndex) ELSE st,
                       "preventDefault", pairIndex),
                pairIndex, st.pairs[pairIndex], freshFunction(st)),
        pairIndex)

-----------------------------------------------------------------------------
(* The handle: setSizes, getSizes, collapse, destroy *)

RECURSIVE setSizesFrom(_, _, _)
\* newSizes.forEach((newSize, i) => ...) from index i on
setSizesFrom(st, newSizes, i) ==
    IF i = length(newSizes) THEN st
    ELSE IF i = 0 THEN setSizesFrom(st, newSizes, 1)
    ELSE setSizesFrom(resize(st, st.pairs[i - 1], newSizes[i - 1], newSizes[i]),
                      newSizes, i + 1)

setSizes(st, newSizes) == setSizesFrom(st, newSizes, 0)

getSizes == [i \in DOMAIN elements |-> elements[i].size]

\* parent.removeChild(node)
removeChild(st, node) ==
    IF node = null THEN [st EXCEPT !.thrown = "TypeError"]
    ELSE IF \A j \in 1..Len(st.children) : st.children[j] # Gutter(node)
    THEN [st EXCEPT !.thrown = "NotFoundError"]
    ELSE [st EXCEPT !.children = SelectSeq(@, LAMBDA c : c # Gutter(node))]

\* The two style assignments of the callback, which an exception skips.
unstyled(st, pair) ==
    IF st.thrown # "" THEN st
    ELSE [st EXCEPT !.style[st.elements[pair.a].element][dimension] = Empty,
                    !.style[st.elements[pair.b].element][dimension] = Empty]

RECURSIVE destroyFrom(_, _)

destroyNext(st, k) == IF st.thrown # "" THEN st ELSE destroyFrom(st, k + 1)

\* pairs.forEach(pair => ...) from index k on; an exception ends it.
destroyFrom(st, k) ==
    IF k = length(st.pairs) THEN st
    ELSE destroyNext(unstyled(removeChild(st, st.pairs[k].gutter), st.pairs[k]), k)

destroy(st) == destroyFrom(st, 0)

\* adjust.call(pair, ...) of collapse, on the pair just measured.
collapsed(st, k, last) ==
    IF last THEN adjust(st, st.pairs[k], Sub(st.pairs[k].size, st.pairs[k].bGutterSize))
    ELSE adjust(st, st.pairs[k], st.pairs[k].aGutterSize)

\* collapse(i); pairs[i] of an index outside the array is undefined, and
\* calculateSizes.call(undefined) raises.
collapse(st, i) ==
    LET k == IF i = length(st.pairs) THEN i - 1 ELSE i
    IN  IF k \notin DOMAIN st.pairs THEN [st EXCEPT !.thrown = "TypeError"]
        ELSE IF isIE8 THEN recalculated(st, k)
        ELSE collapsed(recalculated(st, k), k, i = length(st.pairs))

-----------------------------------------------------------------------------
(* window.dispatchEvent: every listener of the event's type that is still  *)
(* registered when its turn comes runs, in registration order.             *)

\* The listener l called, if it is for this event and still registered.
handleEvent(st, l, e) ==
    IF l.type # e.type \/ ~(\E m \in 1..Len(st.listeners) : st.listeners[m] = l) THEN st
    ELSE IF l.handler = "drag" THEN drag(st, l.pairIndex, e)
    ELSE stopDragging(st, l.pairIndex)

RECURSIVE dispatch(_, _, _, _)
dispatch(st, snapshot, j, e) ==
    IF j > Len(snapshot) THEN st
    ELSE dispatch(handleEvent(st, snapshot[j], e), snapshot, j + 1, e)

-----------------------------------------------------------------------------
(* new UISplitter(ids, options) *)

defaultOptions ==
    [direction     |-> "horizontal",
     gutterSize    |-> Num(10),
     minSize       |-> [array |-> FALSE, v |-> Num(100)],
     snapOffset    |-> Num(30),
     pushablePanes |-> FALSE,
     cursor        |-> "col-resize",
     paneStyle     |-> "defaultPaneStyleFn",
     gutterStyle   |-> "defaultGutterStyleFn"]

\* A variant of mergedOptions in which the defaults override what the caller
\* supplied: { ...options, ...defaultOptions }.
mergedOptionsDefaultsLast ==
    LET given(k) == k \in DOMAIN options /\ options[k] # {}
    IN  [k \in DOMAIN defaultOptions \cup {j \in DOMAIN options : given(j)}
                \cup {"reverseDirection"} |->
            IF k = "reverseDirection" THEN FALSE
            ELSE IF k = "cursor" /\ given(k) THEN CHOOSE v \in options[k] : TRUE
            ELSE IF k \in DOMAIN defaultOptions THEN defaultOptions[k]
            ELSE CHOOSE v \in options[k] : TRUE]

\* { ...defaultOptions, ...options }, then cursor and reverseDirection
mergedOptions ==
    LET given(k) == k \in DOMAIN options /\ options[k] # {}
        merged   == [k \in DOMAIN defaultOptions \cup {j \in DOMAIN options : given(j)} |->
                        IF given(k) THEN CHOOSE v \in options[k] : TRUE
                        ELSE defaultOptions[k]]
        cur      == IF given("cursor") THEN CHOOSE v \in options.cursor : TRUE
                    ELSE IF merged.direction = "horizontal" THEN "col-resize"
                    ELSE "row-resize"
    IN  [k \in DOMAIN merged \cup {"reverseDirection"} |->
            IF k = "cursor" THEN cur
            ELSE IF k = "reverseDirection" THEN FALSE
            ELSE merged[k]]

\* Pane.refreshSize: both branches test isVertical.
PaneRefreshSize(pane, bounds) ==
    LET o  == pane.options
        p1 == IF o.isVertical
              THEN [pane EXCEPT !.size  = bounds["height"],
                                !.start = bounds[IF o.isReverse THEN "bottom" ELSE "top"],
                                !.end   = bounds[IF o.isReverse THEN "right" ELSE "left"]]
              ELSE pane
    IN  IF o.isVertical
        THEN [p1 EXCEPT !.size  = bounds["width"],
                        !.start = bounds[IF o.isReverse THEN "right" ELSE "left"],
                        !.end   = bounds[IF o.isReverse THEN "bottom" ELSE "top"]]
        ELSE p1

\* new Pane(el, options); options.reversedDirection is never set, so
\* isReverse is undefined, which every test of it takes as false.
NewPane(dom, el, opts) ==
    PaneRefreshSize([el |-> el, size |-> NaN, start |-> NaN, end |-> NaN,
                     options |-> [isVertical |-> opts.direction = "vertical",
                                  isReverse  |-> FALSE]],
                    getBoundingClientRect(dom, el))

\* A variant of createPanes that skips the selectors that match nothing.
createPanesSkipping(dom, opts) ==
    [status  |-> "built",
     options |-> opts,
     panes   |-> [i \in {j \in DOMAIN ids : ids[j]} |-> NewPane(dom, i, opts)]]

\* createPanes(ids): the first selector that matches nothing raises.
createPanes(dom, opts) ==
    IF \E i \in DOMAIN ids : ~ids[i]
    THEN [status |-> "threw", options |-> opts, panes |-> <<>>]
    ELSE [status  |-> "built",
          options |-> opts,
          panes   |-> [i \in DOMAIN ids |-> NewPane(dom, i, opts)]]

-----------------------------------------------------------------------------
(* The inputs *)

MaxPanes   == 3
MaxPresses == 2
MaxSteps   == 5
MaxCalls   == 1

ParentSizes == {400}

\* ids of 1..MaxPanes selectors, all matching or exactly one matching nothing.
IdLists ==
    UNION {{[i \in 0..(n - 1) |-> TRUE]} \cup
           {[i \in 0..(n - 1) |-> i # miss] : miss \in 0..(n - 1)} : n \in 1..MaxPanes}

\* Percentages in the proportions 1 : 2 : ... : n, summing to 100.
rising(n) == [i \in 0..(n - 1) |-> Frac(200 * (i + 1), n * (n + 1))]
\* The same, falling.
falling(n) == [i \in 0..(n - 1) |-> Frac(200 * (n - i), n * (n + 1))]
\* 20, 30, 40, ...: the sum is not 100.
ramp(n) == [i \in 0..(n - 1) |-> Num(20 + 10 * i)]

\* Minimum sizes for two panes.
MinSizeArray == (0 :> Num(150)) @@ (1 :> Num(100))

\* Minimum sizes for three panes, each below what its pane will measure.
UnequalMinSizes == (0 :> Num(20)) @@ (1 :> Num(50)) @@ (2 :> Num(80))

\* The options object with no property set.
NoOptions ==
    [sizes |-> {}, minSize |-> {}, gutterSize |-> {}, snapOffset |-> {},
     pushablePanes |-> {}, direction |-> {}, cursor |-> {}]

\* The options objects tried: none, and one or two properties set (sizes, and a
\* vertical split, for fewer than MaxPanes panes only; a cursor, with sizes that
\* are not the default, for a single pane; an array of minimum sizes, the first
\* above what its pane will measure, for two panes; pushablePanes with minimum
\* sizes that differ from pane to pane, for three).
OptionsFor(n) ==
    {NoOptions,
     [NoOptions EXCEPT !.minSize = {[array |-> FALSE, v |-> Num(50)]}],
     [NoOptions EXCEPT !.pushablePanes = {TRUE},
                       !.minSize = {[array |-> FALSE, v |-> Num(50)]}]}
    \cup (IF n < MaxPanes
          THEN {[NoOptions EXCEPT !.sizes = {rising(n)}],
                [NoOptions EXCEPT !.direction = {"vertical"}]}
          ELSE {})
    \cup (IF n = 1
          THEN {[NoOptions EXCEPT !.sizes = {ramp(n)}, !.cursor = {"row-resize"}]}
          ELSE {})
    \cup (IF n = 2
          THEN {[NoOptions EXCEPT !.sizes = {rising(n)},
                                  !.minSize = {[array |-> TRUE, v |-> MinSizeArray]}]}
          ELSE {})
    \cup (IF n = 3
          THEN {[NoOptions EXCEPT !.pushablePanes = {TRUE},
                                  !.minSize = {[array |-> TRUE, v |-> UnequalMinSizes]}]}
          ELSE {})

NewSizes(n) == {falling(n), ramp(n)}

\* Pointer positions <<clientX, clientY>>.
Pointer == {<<45, 270>>, <<130, 130>>, <<270, 45>>, <<420, -20>>}

Event(type, p) ==
    [type |-> type, clientX |-> Num(p[1]), clientY |-> Num(p[2]), touches |-> <<>>]

TouchEvent(type, p) ==
    [type |-> type, clientX |-> NaN, clientY |-> NaN,
     touches |-> <<[clientX |-> Num(p[1]), clientY |-> Num(p[2])]>>]

NoEvent == [type |-> "", clientX |-> NaN, clientY |-> NaN, touches |-> <<>>]

MoveEvents ==
    {Event("mousemove", p) : p \in Pointer} \cup
    {TouchEvent("touchmove", <<130, 130>>)}

HandleCalls == {"setSizes", "collapse", "destroy"}

\* The inline style of every pane before Split runs.
pageStyle ==
    [width |-> Keyword("page"), height |-> Keyword("page"),
     userSelect |-> Empty, pointerEvents |-> Empty, on |-> {}]

Op(name, pairIndex, e, arg) == [op |-> name, pairIndex |-> pairIndex, e |-> e, arg |-> arg]

-----------------------------------------------------------------------------
(* The state machine *)

Init ==
    /\ ids \in IdLists
    /\ options \in OptionsFor(length(ids))
    /\ isIE8 \in BOOLEAN
    /\ parentFlexDirection \in
           IF direction = HORIZONTAL THEN {"row", "row-reverse"}
           ELSE {"column", "column-reverse"}
    /\ parentSize \in ParentSizes
    /\ phase = "page"
    /\ elements = <<>>
    /\ pairs = <<>>
    /\ children = SelectSeq([j \in 1..length(ids) |-> Pane(j - 1)], LAMBDA c : ids[c.i])
    /\ style = [i \in DOMAIN ids |-> pageStyle]
    /\ gutters = <<>>
    /\ cursors = [parent |-> "", body |-> ""]
    /\ listeners = <<>>
    /\ fired = <<>>
    /\ lastOp = Op("none", null, NoEvent, <<>>)
    /\ steps = 0
    /\ calls = 0
    /\ ui = [status |-> "none", options |-> <<>>, panes |-> <<>>]

\* The closure's arrays and the page, as an operation finds them.
Now ==
    [elements |-> elements, pairs |-> pairs, children |-> children, style |-> style,
     gutters |-> gutters, cursors |-> cursors, listeners |-> listeners,
     fired |-> <<>>, thrown |-> ""]

\* Every number stored, and every length the page lays out, is within MaxNumber.
Representable(st) ==
    /\ \A i \in DOMAIN st.elements : st.elements[i].size # TooBig
    /\ \A k \in DOMAIN st.pairs : st.pairs[k].size # TooBig /\ st.pairs[k].start # TooBig
    /\ \A j \in 1..Len(st.children) : boxSize(TheDom(st), st.children[j]) # TooBig
    /\ extent(TheDom(st), Len(st.children)) # TooBig

\* An operation ends in st, having raised st.thrown if that is not "".
Commit(st, op) ==
    /\ Representable(st)
    /\ elements' = st.elements
    /\ pairs' = st.pairs
    /\ children' = st.children
    /\ style' = st.style
    /\ gutters' = st.gutters
    /\ cursors' = st.cursors
    /\ listeners' = st.listeners
    /\ fired' = IF st.thrown = "" THEN st.fired
                ELSE Append(st.fired, [cb |-> st.thrown, pairIndex |-> null])
    /\ lastOp' = op
    /\ steps' = IF op.op = "release" THEN steps ELSE steps + 1
    /\ calls' = IF op.op \in HandleCalls THEN calls + 1 ELSE calls
    /\ UNCHANGED <<ids, options, isIE8, parentFlexDirection, parentSize, ui>>

\* The call returns or raises; when the map raises, `elements` is never assigned.
Constructed(st) ==
    /\ phase' = IF st.thrown = "" THEN "built" ELSE "failed"
    /\ Commit(IF st.thrown = "" THEN st ELSE [st EXCEPT !.elements = <<>>],
              Op("Split", null, NoEvent, <<>>))

\* Split(ids, options).  elementOrSelector(ids[0]).parentNode raises when ids[0]
\* matches nothing.
SplitCall ==
    /\ steps < MaxSteps
    /\ phase = "page" /\ ui.status = "none"
    /\ Constructed(IF ~ids[0] THEN [Now EXCEPT !.thrown = "TypeError"]
                   ELSE mapFrom(Now, 0))

NewUISplitter ==
    /\ steps < MaxSteps
    /\ phase = "page" /\ ui.status = "none"
    /\ ui' = createPanes(TheDom(Now), mergedOptions)
    /\ fired' = IF ui'.status = "threw" THEN <<[cb |-> "Error", pairIndex |-> null]>>
                ELSE <<>>
    /\ lastOp' = Op("UISplitter", null, NoEvent, <<>>)
    /\ steps' = steps + 1
    /\ UNCHANGED <<calls, ids, options, isIE8, parentFlexDirection, parentSize, phase,
                   elements, pairs, children, style, gutters, cursors, listeners>>

\* mousedown or touchstart on the divider of pairs[k], which is in the document.
\* After a failed construction the listener finds `elements` undefined and raises.
Press(k, type) ==
    /\ steps < MaxSteps
    /\ (k + 1) \in DOMAIN gutters
    /\ \E j \in 1..Len(children) : children[j] = Gutter(k + 1)
    /\ \E j \in 1..Len(gutters[k + 1].listeners) : gutters[k + 1].listeners[j].type = type
    /\ Len(listeners) < 5 * MaxPresses
    /\ UNCHANGED phase
    /\ LET e == Event(type, <<0, 0>>)
       IN  Commit(IF phase = "failed" THEN [Now EXCEPT !.thrown = "TypeError"]
                  ELSE startDragging(Now, gutters[k + 1].listeners[1].pairIndex, e),
                  Op("press", k, NoEvent, <<>>))

\* A move or release event reaches window, which has a listener for it.  A
\* release is not counted in steps: it can only end what a counted press began.
WindowEvent(e, name) ==
    /\ name = "move" => steps < MaxSteps
    /\ \E j \in 1..Len(listeners) : listeners[j].type = e.type
    /\ UNCHANGED phase
    /\ Commit(dispatch(Now, listeners, 1, e),
              Op(name, null, IF name = "move" THEN e ELSE NoEvent, <<>>))

Move == \E e \in MoveEvents : WindowEvent(e, "move")

Release == \E type \in StopTypes :
               WindowEvent(Event(type, <<0, 0>>), "release")

SetSizes ==
    /\ steps < MaxSteps /\ calls < MaxCalls
    /\ phase = "built"
    /\ UNCHANGED phase
    /\ \E newSizes \in NewSizes(length(ids)) :
           Commit(setSizes(Now, newSizes), Op("setSizes", null, NoEvent, newSizes))

Collapse ==
    /\ steps < MaxSteps /\ calls < MaxCalls
    /\ phase = "built" /\ ~isIE8
    /\ UNCHANGED phase
    /\ \E i \in 0..length(pairs) :
           Commit(collapse(Now, i), Op("collapse", i, NoEvent, <<>>))

Destroy ==
    /\ steps < MaxSteps /\ calls < MaxCalls
    /\ phase = "built"
    /\ UNCHANGED phase
    /\ Commit(destroy(Now), Op("destroy", null, NoEvent, <<>>))

Next ==
    \/ SplitCall
    \/ NewUISplitter
    \/ \E k \in 0..(MaxPanes - 2), type \in {"mousedown", "touchstart"} : Press(k, type)
    \/ Move
    \/ Release
    \/ SetSizes
    \/ Collapse
    \/ Destroy

Spec == Init /\ [][Next]_vars

-----------------------------------------------------------------------------
(* Measures the properties are stated in *)

\* The pixel length pane i has under the inline styles sty.
pxIn(sty, i) == used(sty[i][dimension])

Count(seq, x) == Cardinality({j \in 1..Len(seq) : seq[j] = x})

\* |x - y| <= d
Within(x, y, d) == Leq(Sub(x, y), d) /\ Leq(Sub(y, x), d)

SomeMissing == \E i \in DOMAIN ids : ~ids[i]

\* The dividers a Split call inserted are all still in the parent.
DividersInPlace ==
    \A i \in DOMAIN gutters : \E j \in 1..Len(children) : children[j] = Gutter(i)

-----------------------------------------------------------------------------
(* The properties *)

\* C1: with pushablePanes disabled, a move event leaves the sum of the sizes of
\* the two panes of every pair that is being dragged as it was before the event
\* (and so, move after move, as it was before the press).
C1_SumConserved ==
    [][(lastOp'.op = "move" /\ ~pushablePanes) =>
          \A k \in DOMAIN pairs :
              pairs[k].dragging =>
                  Add(elements'[pairs[k].a].size, elements'[pairs[k].b].size)
                      = Add(elements[pairs[k].a].size, elements[pairs[k].b].size)]_vars

\* C2: a move whose pointer offset from the cached start of a dragged pair is
\* within snapOffset of a.minSize + aGutterSize leaves pane a exactly a.minSize
\* pixels long, and one within snapOffset of size - (b.minSize + bGutterSize)
\* leaves pane b exactly b.minSize pixels long.
C2_SnapExact ==
    [][lastOp'.op = "move" =>
          \A k \in DOMAIN pairs :
              pairs[k].dragging =>
                  LET pair == pairs[k]
                      a    == elements[pair.a]
                      b    == elements[pair.b]
                      off  == eventOffset(pair, lastOp'.e)
                  IN  /\ Within(off, Add(a.minSize, pair.aGutterSize), snapOffset)
                             => pxIn(style', pair.a) = a.minSize
                      /\ Within(off, Sub(pair.size, Add(b.minSize, pair.bGutterSize)),
                                snapOffset)
                             => pxIn(style', pair.b) = b.minSize]_vars

\* C3: with pushablePanes disabled, a move event that finds every pane at least
\* its minSize long, and a dragged pair whose cached size and start are those of
\* the layout, leaves both panes of that pair at least their minSize long.
C3_MinSizeFloor ==
    [][(/\ lastOp'.op = "move"
        /\ ~pushablePanes
        /\ \A i \in DOMAIN elements : Geq(pxIn(style, i), elements[i].minSize)) =>
          \A k \in DOMAIN pairs :
              (pairs[k].dragging /\ calculateSizes(Now, pairs[k]) = pairs[k]) =>
                  /\ Geq(pxIn(style', pairs[k].a), elements[pairs[k].a].minSize)
                  /\ Geq(pxIn(style', pairs[k].b), elements[pairs[k].b].minSize)]_vars

\* C4: right after Split has returned, getSizes() is options.sizes when that was
\* given, and otherwise N values that are each 100/N.
C4_InitialSizes ==
    (lastOp.op = "Split" /\ phase = "built" /\ ~isIE8) =>
        /\ DOMAIN getSizes = DOMAIN ids
        /\ options.sizes # {} => \A v \in options.sizes : getSizes = v
        /\ options.sizes = {} =>
               \A i \in DOMAIN ids : Mul(getSizes[i], Num(length(ids))) = Num(100)

C4_Witness ==
    /\ lastOp.op = "Split" /\ phase = "built" /\ ~isIE8
    /\ options.sizes # {} /\ length(ids) = 2

\* C5: collapse(i) leaves the targeted pane (pane a of pair i, or pane
\* b of the last pair when i is the pair count) exactly its minSize long, the
\* other pane of the pair taking the rest.
C5_CollapseToMinSize ==
    [][(lastOp'.op = "collapse" /\ fired' = <<>>) =>
          LET last   == lastOp'.pairIndex = length(pairs)
              pair   == pairs[IF last THEN lastOp'.pairIndex - 1 ELSE lastOp'.pairIndex]
              target == IF last THEN pair.b ELSE pair.a
          IN  pxIn(style', target) = elements[target].minSize]_vars

\* C6: destroy(), called while the dividers are in place, leaves no divider in
\* the parent and has cleared the axis dimension of every pane's inline style,
\* and nothing else of it.
C6_DestroyClears ==
    [][(lastOp'.op = "destroy" /\ phase = "built" /\ DividersInPlace) =>
          /\ \A j \in 1..Len(children') : children'[j].kind = "pane"
          /\ Len(children') = length(ids)
          /\ \A i \in DOMAIN style :
                 style'[i] = [style[i] EXCEPT ![dimension] = Empty]]_vars

\* C7: when some selector of ids matches nothing, at whatever position, the
\* Split call raises and so does new UISplitter; neither returns.
C7_MissingSelectorThrows ==
    SomeMissing =>
        /\ phase # "built" /\ ui.status # "built"
        /\ lastOp.op = "Split" =>
               phase = "failed" /\ fired # <<>> /\ fired[Len(fired)].cb = "TypeError"
        /\ lastOp.op = "UISplitter" =>
               ui.status = "threw" /\ fired = <<[cb |-> "Error", pairIndex |-> null]>>

C7_Witness ==
    /\ lastOp.op = "Split" /\ phase = "failed"
    /\ length(ids) = 3 /\ ids[0] /\ ids[1] /\ ~ids[2]

\* C8: when construction has raised, no divider has been created or inserted
\* and no pane's inline style has been written: the page is as it was.
C8_NothingBeforeThrow ==
    (lastOp.op \in {"Split", "UISplitter"} /\ fired # <<>>) =>
        /\ gutters = <<>>
        /\ \A j \in 1..Len(children) : children[j].kind = "pane"
        /\ \A i \in DOMAIN style : style[i] = pageStyle

\* C9: right after setSizes(newSizes) has returned, getSizes() is newSizes.
C9_SetSizesRoundTrip ==
    (lastOp.op = "setSizes" /\ fired = <<>> /\ ~isIE8) => getSizes = lastOp.arg

\* C10: for every pair, onDragStart is invoked (once) only by a press on its
\* divider that finds it not dragging, onDragEnd (once) only by a release that
\* finds it dragging, and its dragging flag changes exactly when one of the two
\* is invoked: so the two alternate, onDragStart first.
C10_StartEndAlternate ==
    [][\A k \in DOMAIN pairs \cap DOMAIN pairs' :
          LET starts == Count(fired', [cb |-> "onDragStart", pairIndex |-> k])
              ends   == Count(fired', [cb |-> "onDragEnd", pairIndex |-> k])
          IN  /\ starts + ends <= 1
              /\ starts = 1 => /\ lastOp'.op = "press" /\ lastOp'.pairIndex = k
                               /\ ~pairs[k].dragging /\ pairs'[k].dragging
              /\ ends = 1 => /\ lastOp'.op = "release"
                             /\ pairs[k].dragging /\ ~pairs'[k].dragging
              /\ pairs'[k].dragging # pairs[k].dragging => starts + ends = 1]_vars

\* A second press on a divider whose pair is dragging: no onDragStart.
C10_Witness ==
    /\ lastOp.op = "press" /\ phase = "built"
    /\ fired = <<[cb |-> "preventDefault", pairIndex |-> lastOp.pairIndex]>>
    /\ pairs[lastOp.pairIndex].dragging

\* C11: a release event leaves every pair that was dragging not dragging, with
\* userSelect and pointerEvents of both its panes empty and the cursor of its
\* divider, of the parent and of document.body empty.
C11_ReleaseRestores ==
    [][lastOp'.op = "release" =>
          \A k \in DOMAIN pairs :
              pairs[k].dragging =>
                  /\ ~pairs'[k].dragging
                  /\ \A i \in {pairs[k].a, pairs[k].b} :
                         /\ style'[i].userSelect = Empty
                         /\ style'[i].pointerEvents = Empty
                  /\ gutters'[pairs[k].gutter].style.cursor = ""
                  /\ cursors' = [parent |-> "", body |-> ""]]_vars

\* A release has ended a drag.
C11_Witness ==
    /\ lastOp.op = "release"
    /\ \E k \in DOMAIN pairs :
           /\ Count(fired, [cb |-> "onDragEnd", pairIndex |-> k]) = 1
           /\ ~pairs[k].dragging
           /\ style[pairs[k].a].userSelect = Empty

\* C12: after a release event no listener that a press registered on window for a
\* pair that is no longer dragging remains registered.
C12_NoListenerLeft ==
    lastOp.op = "release" =>
        \A k \in DOMAIN pairs :
            ~pairs[k].dragging =>
                \A j \in 1..Len(listeners) : listeners[j].pairIndex # k

\* C13: at most one pair is dragging.
C13_OneDragAtATime ==
    Cardinality({k \in DOMAIN pairs : pairs[k].dragging}) <= 1

\* C14: in degraded (IE8) mode construction inserts no divider and registers no
\* press listener, every pane is sized with a bare percentage, and neither
\* setSizes nor destroy raises.
C14_DegradedMode ==
    (isIE8 /\ phase = "built") =>
        /\ gutters = <<>>
        /\ \A j \in 1..Len(children) : children[j].kind = "pane"
        /\ lastOp.op = "Split" =>
               \A i \in DOMAIN ids : style[i][dimension] = Css("percent", sizes[i], Num(0))
        /\ lastOp.op \in {"setSizes", "destroy"} => fired = <<>>

\* C15: the options of a UISplitter built with no options hold, for every key of
\* defaultOptions, the value defaultOptions has for it; those of one built with
\* options hold, for every key the caller supplied, the value supplied.
C15_OptionsMerged ==
    ui.status = "built" =>
        /\ options = NoOptions =>
               \A k \in DOMAIN defaultOptions :
                   k \in DOMAIN ui.options /\ ui.options[k] = defaultOptions[k]
        /\ \A k \in DOMAIN options :
               options[k] # {} =>
                   k \in DOMAIN ui.options /\ \A v \in options[k] : ui.options[k] = v

\* A UISplitter built with a cursor and sizes supplied.
C15_Witness ==
    /\ ui.status = "built"
    /\ options.cursor = {"row-resize"} /\ options.sizes # {}
    /\ ui.options.cursor = "row-resize"

\* C16: when no cursor option is supplied, the cursor a UISplitter holds in its
\* options, and the cursor a drag puts on the divider, the parent and
\* document.body, is col-resize for a horizontal split and row-resize for a
\* vertical one.
C16_DefaultCursor ==
    options.cursor = {} =>
        LET expected == IF direction = HORIZONTAL THEN "col-resize" ELSE "row-resize"
        IN  /\ ui.status = "built" => ui.options.cursor = expected
            /\ \A k \in DOMAIN pairs :
                   (lastOp.op = "press" /\ lastOp.pairIndex = k /\ pairs[k].dragging) =>
                       /\ gutters[pairs[k].gutter].style.cursor = expected
                       /\ cursors = [parent |-> expected, body |-> expected]

\* C17: Split over a single identifier that matches returns without raising,
\* with no pair and no divider, and getSizes() is then [100], or the one size
\* supplied.
C17_SinglePane ==
    (length(ids) = 1 /\ ids[0] /\ lastOp.op = "Split") =>
        /\ phase = "built" /\ fired = <<>>
        /\ DOMAIN pairs = {}
        /\ gutters = <<>> /\ children = <<Pane(0)>>
        /\ ~isIE8 =>
               getSizes = IF options.sizes = {} THEN [i \in {0} |-> Num(100)]
                          ELSE CHOOSE v \in options.sizes : TRUE

\* A single pane built with the size 20 supplied.
C17_Witness ==
    /\ length(ids) = 1 /\ lastOp.op = "Split" /\ phase = "built" /\ ~isIE8
    /\ options.sizes = {ramp(1)} /\ getSizes[0] = Num(20)

\* C18: the move handler of a pair that is not dragging changes nothing and
\* invokes nothing; so a move event that finds no pair dragging leaves every
\* pane size, every style and every pair as it was, and no callback is invoked.
C18_IdleMoveIsNoOp ==
    [][lastOp'.op = "move" =>
          /\ \A k \in DOMAIN pairs :
                 ~pairs[k].dragging => drag(Now, k, lastOp'.e) = Now
          /\ (\A k \in DOMAIN pairs : ~pairs[k].dragging) =>
                 /\ elements' = elements /\ style' = style /\ pairs' = pairs
                 /\ fired' = <<>>]_vars

\* A move event was handled while no pair was dragging (by a listener that an
\* earlier gesture left on window).
C18_Witness ==
    /\ lastOp.op = "move" /\ phase = "built"
    /\ \A k \in DOMAIN pairs : ~pairs[k].dragging
    /\ \E j \in 1..Len(listeners) : listeners[j].handler = "drag"
    /\ fired = <<>>

\* C19: a move event invokes onDrag exactly once for every pair that is
\* dragging.
C19_OneOnDragPerMove ==
    [][lastOp'.op = "move" =>
          \A k \in DOMAIN pairs :
              pairs[k].dragging =>
                  Count(fired', [cb |-> "onDrag", pairIndex |-> k]) = 1]_vars

\* C20: with pushablePanes enabled, a move event leaves the a, b, aGutterSize,
\* bGutterSize, size and start of every pair in the pairs array as they were.
C20_PairsKeptByMove ==
    [][(lastOp'.op = "move" /\ pushablePanes) =>
          /\ DOMAIN pairs' = DOMAIN pairs
          /\ \A k \in DOMAIN pairs :
                 /\ pairs'[k].a = pairs[k].a /\ pairs'[k].b = pairs[k].b
                 /\ pairs'[k].aGutterSize = pairs[k].aGutterSize
                 /\ pairs'[k].bGutterSize = pairs[k].bGutterSize
                 /\ pairs'[k].size = pairs[k].size
                 /\ pairs'[k].start = pairs[k].start]_vars

\* A push-through move was handled: the pointer is before the start of a dragged
\* pair that is not the first.
C20_Witness ==
    /\ lastOp.op = "move" /\ pushablePanes /\ length(pairs) > 1
    /\ \E k \in DOMAIN pairs :
           /\ pairs[k].dragging /\ ~pairs[k].isFirst
           /\ Lt(eventOffset(pairs[k], lastOp.e), Num(0))
           /\ Count(fired, [cb |-> "onDrag", pairIndex |-> k]) = 1

\* The one pair that is dragging, when there is exactly one.
OnlyDragging(k) == \A j \in DOMAIN pairs : pairs[j].dragging <=> j = k

\* C21: with pushablePanes enabled, a move with a negative pointer offset on the
\* only dragging pair P, not the first, changes the sizes of pane a of the pair
\* before P and of pane b of P only, the two end up with numeric sizes, and their
\* sum is what it was.
C21_PushBefore ==
    [][(lastOp'.op = "move" /\ pushablePanes) =>
          \A k \in DOMAIN pairs :
              (/\ OnlyDragging(k) /\ ~pairs[k].isFirst
               /\ Lt(eventOffset(pairs[k], lastOp'.e), Num(0))) =>
                  LET a == pairs[k - 1].a
                      b == pairs[k].b
                  IN  /\ \A i \in DOMAIN elements \ {a, b} :
                             elements'[i].size = elements[i].size
                      /\ ~isNaN(elements'[a].size) /\ ~isNaN(elements'[b].size)
                      /\ Add(elements'[a].size, elements'[b].size)
                             = Add(elements[a].size, elements[b].size)]_vars

\* Exactly one listener on window is for events of this type.
OneListenerFor(type) ==
    Cardinality({j \in 1..Len(listeners) : listeners[j].type = type}) = 1

\* C22: in a push-through move on the only dragging pair, the sizes stored are
\* those adjust computes in the extended pair as measured during the move, from
\* the offset clamped with the span and the gutter allowances of that extended
\* pair.
C22_SnapOnExtendedPair ==
    [][(lastOp'.op = "move" /\ pushablePanes /\ length(pairs) > 1
        /\ OneListenerFor(lastOp'.e.type)) =>
          \A k \in DOMAIN pairs :
              OnlyDragging(k) =>
                  \A off \in {eventOffset(pairs[k], lastOp'.e)} :
                  \A before \in {~pairs[k].isFirst /\ Lt(off, Num(0))} :
                  \A after \in {~pairs[k].isLast /\ Lt(pairs[k].size, off)} :
                  \A ext \in {calculateSizes(Now, borrow(Now, k, pairs[k], before, after))} :
                  \A po \in {IF before
                              THEN Add(off, Sub(pairs[k].start, pairs[k - 1].start))
                              ELSE off} :
                  \A lowest \in {Add(elements[pairs[k].a].minSize, ext.aGutterSize)} :
                  \A highest \in {Sub(ext.size, Add(elements[pairs[k].b].minSize,
                                                      ext.bGutterSize))} :
                  \A clamped \in {IF Leq(po, Add(lowest, snapOffset)) THEN lowest
                                   ELSE IF Geq(po, Sub(highest, snapOffset)) THEN highest
                                   ELSE po} :
                  \A pct \in {Add(elements[ext.a].size, elements[ext.b].size)} :
                  \A aSize \in {Mul(Div(clamped, ext.size), pct)} :
                      (before \/ after) =>
                          /\ elements'[ext.b].size = Sub(pct, aSize)
                          /\ ext.a # ext.b => elements'[ext.a].size = aSize]_vars

\* A push-through move past the end of the only dragging pair was handled and
\* left numeric sizes.
C22_Witness ==
    /\ lastOp.op = "move" /\ pushablePanes /\ length(pairs) > 1
    /\ OneListenerFor(lastOp.e.type)
    /\ \E k \in DOMAIN pairs :
           /\ OnlyDragging(k) /\ ~pairs[k].isLast
           /\ Lt(pairs[k].size, eventOffset(pairs[k], lastOp.e))
           /\ fired = <<[cb |-> "onDrag", pairIndex |-> k]>>
    /\ \A i \in DOMAIN elements : ~isNaN(elements[i].size)

\* Half a divider for the first and the last pane, a whole divider for the others.
Allowance(i) ==
    IF i = 0 \/ i = length(ids) - 1 THEN Div(gutterSize, Num(2)) ELSE gutterSize

\* C23: the style that construction, setSizes or a move applies to a pane
\* subtracts half the divider size for the first and the last pane and the whole
\* divider size for every pane between them, whatever the parent's flex direction.
C23_GutterAllowance ==
    [][(lastOp'.op \in {"Split", "setSizes", "move"} /\ phase' = "built" /\ ~isIE8) =>
          \A i \in DOMAIN ids :
              (style'[i] # style[i] /\ style'[i][dimension].css = "calc") =>
                  style'[i][dimension].px = Allowance(i)]_vars

\* C24: construction over N panes builds N-1 pairs; pair k is the first iff
\* k = 0 and the last iff k = N-2, and joins panes a = k and b = k+1, or a = k+1
\* and b = k when the parent's flex direction is row-reverse or column-reverse.
C24_PairsBuilt ==
    (lastOp.op = "Split" /\ phase = "built") =>
        /\ length(pairs) = length(ids) - 1
        /\ \A k \in DOMAIN pairs :
               /\ pairs[k].isFirst <=> k = 0
               /\ pairs[k].isLast <=> k = length(ids) - 2
               /\ IF parentFlexDirection \in {"row-reverse", "column-reverse"}
                  THEN pairs[k].a = k + 1 /\ pairs[k].b = k
                  ELSE pairs[k].a = k /\ pairs[k].b = k + 1

\* Three panes were split in a parent whose flex direction is reversed.
C24_Witness ==
    /\ lastOp.op = "Split" /\ phase = "built"
    /\ length(ids) = 3 /\ length(pairs) = 2
    /\ parentFlexDirection \in {"row-reverse", "column-reverse"}

\* The minimum size configured for pane i: the entry of an array, a number for
\* all panes, or 100.
Configured(i) ==
    IF options.minSize = {} THEN Num(100)
    ELSE LET min == CHOOSE v \in options.minSize : TRUE
         IN  IF min.array THEN min.v[i] ELSE min.v

\* C25: right after construction the minSize of each pane is the smaller of its
\* configured minimum and the length the pane was measured to have.
C25_EffectiveMinSize ==
    (lastOp.op = "Split" /\ phase = "built") =>
        \A i \in DOMAIN ids :
            elements[i].minSize =
                IF Lt(pxIn(style, i), Configured(i)) THEN pxIn(style, i) ELSE Configured(i)

\* Construction, given an array of minimum sizes, measured one pane below its
\* configured minimum and another one at or above it.
C25_Witness ==
    /\ lastOp.op = "Split" /\ phase = "built"
    /\ \E min \in options.minSize : min.array
    /\ \E i \in DOMAIN ids : Lt(pxIn(style, i), Configured(i))
    /\ \E i \in DOMAIN ids : Leq(Configured(i), pxIn(style, i))

\* C26: a move event, a release event and a change of the layout made by
\* setSizes or destroy leave the cached size and start of every pair as the last
\* press on its divider stored them.
C26_CacheKept ==
    [][lastOp'.op \in {"move", "release", "setSizes", "destroy"} =>
          \A k \in DOMAIN pairs :
              /\ k \in DOMAIN pairs'
              /\ pairs'[k].size = pairs[k].size
              /\ pairs'[k].start = pairs[k].start]_vars

\* A move was handled for a dragging pair whose cached size or start is no longer
\* what the page would measure.
C26_Witness ==
    /\ lastOp.op = "move"
    /\ \E k \in DOMAIN pairs :
           /\ pairs[k].dragging
           /\ fired = <<[cb |-> "onDrag", pairIndex |-> k]>>
           /\ ~isNaN(pairs[k].size)
           /\ \E m \in {calculateSizes(Now, pairs[k])} :
                  m.size # pairs[k].size \/ m.start # pairs[k].start

\* C27: with pushablePanes disabled, a move event handled for the only dragging
\* pair P leaves the size of every pane but P's a and b, and every other pair,
\* as they were.
C27_MoveIsLocal ==
    [][(lastOp'.op = "move" /\ ~pushablePanes) =>
          \A k \in DOMAIN pairs :
              OnlyDragging(k) =>
                  /\ \A i \in DOMAIN elements \ {pairs[k].a, pairs[k].b} :
                         elements'[i].size = elements[i].size
                  /\ \A j \in DOMAIN pairs \ {k} : pairs'[j] = pairs[j]]_vars

\* With pushablePanes disabled, a move was handled for the only dragging pair of
\* three panes with the pointer outside the span of the pair, on the side of a
\* neighbouring pair.
C27_Witness ==
    /\ lastOp.op = "move" /\ ~pushablePanes /\ length(pairs) > 1
    /\ \E k \in DOMAIN pairs :
           /\ OnlyDragging(k)
           /\ fired = <<[cb |-> "onDrag", pairIndex |-> k]>>
           /\ \/ ~pairs[k].isFirst /\ Lt(eventOffset(pairs[k], lastOp.e), Num(0))
              \/ ~pairs[k].isLast /\ Lt(pairs[k].size, eventOffset(pairs[k], lastOp.e))

\* C28: a pane a UISplitter has built records the height of its element as size
\* and its top edge (bottom when reversed) as start when it is vertical, and the
\* width and the left edge (right when reversed) when it is horizontal.
C28_PaneRefreshSize ==
    ui.status = "built" =>
        \A i \in DOMAIN ui.panes :
            \A bounds \in {getBoundingClientRect(TheDom(Now), ui.panes[i].el)} :
                IF ui.panes[i].options.isVertical
                THEN /\ ui.panes[i].size = bounds["height"]
                     /\ ui.panes[i].start =
                            bounds[IF ui.panes[i].options.isReverse THEN "bottom" ELSE "top"]
                ELSE /\ ui.panes[i].size = bounds["width"]
                     /\ ui.panes[i].start =
                            bounds[IF ui.panes[i].options.isReverse THEN "right" ELSE "left"]

\* Every pane is at least its minSize long under the styles sty.
AllAtLeastMinSize(sty) ==
    \A i \in DOMAIN elements : Geq(pxIn(sty, i), elements[i].minSize)

\* C29: with pushablePanes enabled and every pane at least its minSize long, a
\* push-through move on the only dragging pair leaves each of the two panes it
\* resizes (the borrowed pane and the far pane of the pair) at least that pane's
\* own minSize long.
C29_PushKeepsMinSize ==
    [][(lastOp'.op = "move" /\ pushablePanes /\ length(pairs) > 1
        /\ AllAtLeastMinSize(style)) =>
          \A k \in DOMAIN pairs :
              OnlyDragging(k) =>
                  \A off \in {eventOffset(pairs[k], lastOp'.e)} :
                  \A before \in {~pairs[k].isFirst /\ Lt(off, Num(0))} :
                  \A after \in {~pairs[k].isLast /\ Lt(pairs[k].size, off)} :
                  \A ext \in {borrow(Now, k, pairs[k], before, after)} :
                      (before \/ after) =>
                          \A i \in {ext.a, ext.b} :
                              elements'[i].size # elements[i].size =>
                                  Geq(pxIn(style', i), elements[i].minSize)]_vars

RECURSIVE SumOfSizes(_, _)
\* The sizes of the first n elements of els, added up.
SumOfSizes(els, n) ==
    IF n = 0 THEN Num(0) ELSE Add(SumOfSizes(els, n - 1), els[n - 1].size)

\* C30: a press, a move, a release and a collapse leave the sum of the sizes of
\* all panes as it was.
C30_TotalConserved ==
    [][(lastOp'.op \in {"press", "move", "release", "collapse"} /\ phase = "built") =>
          SumOfSizes(elements', length(elements')) = SumOfSizes(elements, length(elements))]_vars

\* C31: every pair that is dragging has its stop function registered on window
\* for each of the three release event types, and after a release event of any
\* of them no pair is dragging.
C31_ReleaseEndsEveryDrag ==
    /\ \A k \in DOMAIN pairs :
           pairs[k].dragging =>
               \A type \in StopTypes :
                   \E j \in 1..Len(listeners) :
                       listeners[j] = [type |-> type, id |-> pairs[k].stop,
                                       handler |-> "stopDragging", pairIndex |-> k]
    /\ lastOp.op = "release" => \A k \in DOMAIN pairs : ~pairs[k].dragging

\* One release event has ended the drags of two pairs.
C31_Witness ==
    /\ lastOp.op = "release"
    /\ \E k, m \in DOMAIN pairs :
           /\ k # m
           /\ Count(fired, [cb |-> "onDragEnd", pairIndex |-> k]) = 1
           /\ Count(fired, [cb |-> "onDragEnd", pairIndex |-> m]) = 1
    /\ \A k \in DOMAIN pairs : ~pairs[k].dragging

\* C32: with pushablePanes disabled, a move event leaves the sum of the sizes of
\* the two panes of every dragging pair as it was and gives pane a of the pair
\* the share of that sum set by the pointer coordinate of the event, the size and
\* start cached at the press, the gutter allowances and the minimum sizes alone;
\* so the sizes after the event do not depend on the moves before it, and the
\* same move event delivered a second time changes no pane size.
C32_MoveDependsOnPointerOnly ==
    [][(lastOp'.op = "move" /\ ~pushablePanes) =>
          \A k \in DOMAIN pairs :
              pairs[k].dragging =>
                  \A off \in {eventOffset(pairs[k], lastOp'.e)} :
                  \A lowest \in {Add(elements[pairs[k].a].minSize, pairs[k].aGutterSize)} :
                  \A highest \in {Sub(pairs[k].size, Add(elements[pairs[k].b].minSize,
                                                          pairs[k].bGutterSize))} :
                  \A clamped \in {IF Leq(off, Add(lowest, snapOffset)) THEN lowest
                                   ELSE IF Geq(off, Sub(highest, snapOffset)) THEN highest
                                   ELSE off} :
                  \A pct \in {Add(elements[pairs[k].a].size, elements[pairs[k].b].size)} :
                      /\ Add(elements'[pairs[k].a].size, elements'[pairs[k].b].size) = pct
                      /\ elements'[pairs[k].a].size = Mul(Div(clamped, pairs[k].size), pct)
                      /\ (lastOp.op = "move" /\ lastOp.e = lastOp'.e) =>
                             \A i \in DOMAIN elements :
                                 elements'[i].size = elements[i].size]_vars

\* destroy() has removed every divider construction inserted.
Destroyed ==
    /\ gutters # <<>>
    /\ \A i \in DOMAIN gutters : \A j \in 1..Len(children) : children[j] # Gutter(i)

\* C33: once destroy() has removed the dividers, a move or release event writes
\* the axis-dimension inline style of no pane and changes no pane size.
C33_NothingAfterDestroy ==
    [][(Destroyed /\ lastOp'.op \in {"move", "release"}) =>
          \A i \in DOMAIN elements :
              /\ style'[i][dimension] = style[i][dimension]
              /\ elements'[i].size = elements[i].size]_vars

====
